---- MODULE Spec2Model ----
(***************************************************************************)
(* Model of font_checker.py: the integrity validator                       *)
(* (FontChecker.check_font_integrity, FontChecker.get_font_info), the      *)
(* concurrent sweep (FontChecker.process_single_font run by the thread     *)
(* pool of FontChecker.scan_fonts), the report and the deletion executor   *)
(* (FontChecker.delete_corrupted_fonts driven by main).                    *)
(*                                                                         *)
(* A candidate file is a record of what the collaborators answer for it:   *)
(*   stat       "ok" | "enoent" | "eacces"   outcome of Path.stat()        *)
(*   size       st_size                                                    *)
(*   load       "ok" | "raise" | "hang"      TTFont(path, lazy=True)       *)
(*   has        table -> "yes" | "no" | "raise"    `table in font`         *)
(*   headRead   "ok" | "raise"               font['head'] / .magicNumber   *)
(*   magicNumber                                                           *)
(*   namesRead  "ok" | "raise"               font['name'] / .names         *)
(*   names      sequence of [nameID, decode, text]  (decode "ok"|"raise")  *)
(*   close      "ok" | "raise"               font.close()                  *)
(*   printable  whether print() can encode the file name                   *)
(***************************************************************************)
EXTENDS Integers, Sequences, FiniteSets, TLC

\* ------------------------------------------------------------- bounds
MaxFiles == 2
MaxWorkers == 2
MaxNames == 2

\* ---------------------------------------------------------- constants
MinFontSize == 1024
ExpectedMagic == 1594834165
FamilyNameID == 1
NameLimit == 50

\* --------------------------------------------------- text of a name
Texts == {<<>>, <<" ">>, <<"-">>, <<"A">>, <<" ", "A">>}

\* str.isalnum of one character
isalnum(c) == c = "A"

\* str.isspace of one character
isspace(c) == c = " "

RECURSIVE lstrip(_)
lstrip(s) ==
  IF s = <<>> THEN s
  ELSE IF isspace(Head(s)) THEN lstrip(Tail(s))
  ELSE s

RECURSIVE rstrip(_)
rstrip(s) ==
  IF s = <<>> THEN s
  ELSE IF isspace(s[Len(s)]) THEN rstrip(SubSeq(s, 1, Len(s) - 1))
  ELSE s

\* str.strip()
strip(s) == rstrip(lstrip(s))

\* name_str[:50]
Truncate(s, n) == IF Len(s) <= n THEN s ELSE SubSeq(s, 1, n)

\* the test of lines 79-81 on a decoded name
NameTextOk(name_str) ==
  /\ name_str # <<>>
  /\ Len(strip(name_str)) > 0
  /\ \E i \in 1..Len(name_str) : isalnum(name_str[i])

\* ------------------------------------------------ check_font_integrity
Tables == {"head", "name", "cmap"}

required_tables == <<"head", "name", "cmap">>

ReasonTooSmall == "file too small"
ReasonLoadFailed == "load failed"
ReasonBadMagic == "invalid magic number"
ReasonHeadRead == "head table read failed"
ReasonNoName == "no valid font name"
ReasonNameRead == "name table read failed"
ReasonOk == "ok"

ReasonMissing(table) ==
  CASE table = "head" -> "missing required table: head"
    [] table = "name" -> "missing required table: name"
    [] table = "cmap" -> "missing required table: cmap"

\* What one call returned: the pair (is_valid, error_msg), the collaborator
\* operations it performed in order, and whether it never returned at all.
Ret(valid, reason, calls) ==
  [valid |-> valid, reason |-> reason, calls |-> calls, hang |-> FALSE]

Hang(calls) ==
  [valid |-> FALSE, reason |-> "", calls |-> calls, hang |-> TRUE]

\* font.close() followed by return (valid, reason); a close() that raises is
\* caught by the outer handler of lines 95-96.
CloseThenReturn(f, valid, reason, calls) ==
  IF f.close = "ok"
  THEN Ret(valid, reason, Append(calls, "close"))
  ELSE Ret(FALSE, ReasonLoadFailed, Append(calls, "close"))

\* size test of line 49
TooSmall_Inclusive(file_size) == file_size <= MinFontSize

TooSmall(file_size) == file_size < MinFontSize

\* magic test of line 65
MagicOk(magic) == magic = ExpectedMagic

\* lines 76-83: the loop over name_table.names from record i on.
\* Returns "valid", "invalid" or "raise", with the decode calls made.
RECURSIVE NameLoop(_, _, _)
NameLoop(names, i, calls) ==
  IF i > Len(names) THEN [out |-> "invalid", calls |-> calls]
  ELSE IF names[i].nameID # FamilyNameID THEN NameLoop(names, i + 1, calls)
  ELSE IF names[i].decode = "raise"
       THEN [out |-> "raise", calls |-> Append(calls, "toUnicode")]
  ELSE IF NameTextOk(names[i].text)
       THEN [out |-> "valid", calls |-> Append(calls, "toUnicode")]
  ELSE NameLoop(names, i + 1, Append(calls, "toUnicode"))

\* lines 72-93
CheckName(f, calls) ==
  IF f.namesRead = "raise"
  THEN CloseThenReturn(f, FALSE, ReasonNameRead, Append(calls, "read:name"))
  ELSE LET r == NameLoop(f.names, 1, Append(calls, "read:name"))
       IN  CASE r.out = "raise" -> CloseThenReturn(f, FALSE, ReasonNameRead, r.calls)
             [] r.out = "invalid" -> CloseThenReturn(f, FALSE, ReasonNoName, r.calls)
             [] r.out = "valid" -> CloseThenReturn(f, TRUE, ReasonOk, r.calls)

\* lines 62-70
CheckHead(f, calls) ==
  IF f.headRead = "raise"
  THEN CloseThenReturn(f, FALSE, ReasonHeadRead, Append(calls, "read:head"))
  ELSE IF ~MagicOk(f.magicNumber)
  THEN CloseThenReturn(f, FALSE, ReasonBadMagic, Append(calls, "read:head"))
  ELSE CheckName(f, Append(calls, "read:head"))

\* lines 56-60: the loop over required_tables from position i on
RECURSIVE CheckTables(_, _, _)
CheckTables(f, i, calls) ==
  IF i > Len(required_tables) THEN CheckHead(f, calls)
  ELSE LET table == required_tables[i]
           now == Append(calls, "has:" \o table)
       IN  CASE f.has[table] = "raise" -> Ret(FALSE, ReasonLoadFailed, now)
             [] f.has[table] = "no" -> CloseThenReturn(f, FALSE, ReasonMissing(table), now)
             [] f.has[table] = "yes" -> CheckTables(f, i + 1, now)

\* lines 42-96
check_font_integrity(f) ==
  IF f.stat # "ok" THEN Ret(FALSE, ReasonLoadFailed, <<"stat">>)
  ELSE IF TooSmall(f.size) THEN Ret(FALSE, ReasonTooSmall, <<"stat">>)
  ELSE CASE f.load = "hang" -> Hang(<<"stat", "open">>)
         [] f.load = "raise" -> Ret(FALSE, ReasonLoadFailed, <<"stat", "open">>)
         [] f.load = "ok" -> CheckTables(f, 1, <<"stat", "open">>)

\* ------------------------------------------------------- get_font_info
NameUnknown == <<"unknown">>
NameReadFailed == <<"read failed">>

\* lines 107-113: first nameID 1 record that decodes, from record i on
RECURSIVE FamilyName(_, _)
FamilyName(names, i) ==
  IF i > Len(names) THEN NameUnknown
  ELSE IF names[i].nameID = FamilyNameID /\ names[i].decode = "ok"
       THEN Truncate(names[i].text, NameLimit)
  ELSE FamilyName(names, i + 1)

Info(name, size) == [fault |-> FALSE, hang |-> FALSE, name |-> name, size |-> size]

InfoFault == [fault |-> TRUE, hang |-> FALSE, name |-> <<>>, size |-> 0]

InfoHang == [fault |-> FALSE, hang |-> TRUE, name |-> <<>>, size |-> 0]

\* lines 121-126: the fallback; Path.exists() answers False for a missing
\* file and re-raises any other OSError of stat().
InfoFallback(f) ==
  CASE f.stat = "eacces" -> InfoFault
    [] f.stat = "enoent" -> Info(NameReadFailed, 0)
    [] f.stat = "ok" -> Info(NameReadFailed, f.size)

\* lines 98-126
get_font_info(f) ==
  CASE f.load = "hang" -> InfoHang
    [] f.load = "raise" -> InfoFallback(f)
    [] f.load = "ok" ->
         IF \/ f.has["name"] = "raise"
            \/ f.has["name"] = "yes" /\ f.namesRead = "raise"
            \/ f.close = "raise"
            \/ f.stat # "ok"
         THEN InfoFallback(f)
         ELSE Info(IF f.has["name"] = "yes" THEN FamilyName(f.names, 1)
                   ELSE NameUnknown, f.size)

\* ------------------------------------------------------ candidate files
GoodNames == <<[nameID |-> 1, decode |-> "ok", text |-> <<"A">>]>>

BadNames == <<[nameID |-> 1, decode |-> "ok", text |-> <<"-">>]>>

AllTables == [t \in Tables |-> "yes"]

\* a well-formed font of 2048 bytes
GoodFile ==
  [stat |-> "ok", size |-> 2048, load |-> "ok", has |-> AllTables,
   headRead |-> "ok", magicNumber |-> ExpectedMagic,
   namesRead |-> "ok", names |-> GoodNames, close |-> "ok", printable |-> TRUE]

\* a truncated font: 512 bytes that do not parse
SmallFile == [GoodFile EXCEPT !.size = 512, !.load = "raise"]

\* a file in a directory the process may list but not search: stat() and
\* open() both raise PermissionError
NoAccessFile == [GoodFile EXCEPT !.stat = "eacces", !.load = "raise"]

\* a named pipe called *.otf: size 0, and opening it blocks for ever
FifoFile == [GoodFile EXCEPT !.size = 0, !.load = "hang"]

\* a file name that the output stream cannot encode
GoodUnprintable == [GoodFile EXCEPT !.printable = FALSE]

SmallUnprintable == [SmallFile EXCEPT !.printable = FALSE]

SweepFiles ==
  {GoodFile, SmallFile, NoAccessFile, FifoFile, GoodUnprintable, SmallUnprintable}

NameRecords ==
  [nameID : {FamilyNameID, 2}, decode : {"ok"}, text : Texts]
    \cup [nameID : {FamilyNameID, 2}, decode : {"raise"}, text : {<<>>}]

RECURSIVE SeqsUpTo(_, _)
SeqsUpTo(S, n) ==
  IF n = 0 THEN {<<>>}
  ELSE LET shorter == SeqsUpTo(S, n - 1)
       IN  shorter \cup {Append(s, x) : s \in {q \in shorter : Len(q) = n - 1}, x \in S}

NameLists == SeqsUpTo(NameRecords, MaxNames)

\* every combination of collaborator answers with a good or a bad name list,
\* and the well-formed font with every name list
ValidateFiles ==
  [stat : {"ok", "enoent", "eacces"}, size : {MinFontSize - 1, MinFontSize},
   load : {"ok", "raise", "hang"}, has : [Tables -> {"yes", "no", "raise"}],
   headRead : {"ok", "raise"}, magicNumber : {ExpectedMagic, ExpectedMagic - 1},
   namesRead : {"ok", "raise"}, names : {GoodNames, BadNames},
   close : {"ok", "raise"}, printable : {TRUE}]
    \cup {[GoodFile EXCEPT !.names = n] : n \in NameLists}
    \cup {GoodUnprintable}

\* ---------------------------------------------------------------- state
VARIABLES
  files,            \* otf_files: the candidates, in the order of find_otf_files
  max_workers,      \* self.max_workers
  args_delete,      \* args.delete
  dry_run,          \* self.dry_run
  pc,               \* where the main thread is
  task,             \* where each submitted task is
  verdict,          \* each task's (is_valid, error_msg)
  font_info,        \* each task's font_info
  lock,             \* self.lock: 0 when free, else the task that holds it
  tmp,              \* the counter value a task loaded for its += 1
  processed_count,  \* self.processed_count
  total_count,      \* self.total_count
  valid_fonts,      \* self.valid_fonts
  corrupted_fonts,  \* self.corrupted_fonts
  stdout,           \* the processed values of the progress lines printed
  logged,           \* the tasks whose fault scan_fonts has caught and printed
  collected,        \* the futures as_completed has yielded
  trace,            \* the collaborator operations of each task's check, in order
  response,         \* the answer to the prompt
  di,               \* position of the deletion loop in corrupted_fonts
  deleted_count,    \* deleted_count of delete_corrupted_fonts
  attempts,         \* the paths os.remove was called on, in order
  removed,          \* the paths no longer in the file system
  reported          \* the count of the final line, -1 until it is printed

vars ==
  <<files, max_workers, args_delete, dry_run, pc, task, verdict, font_info,
    lock, tmp, processed_count, total_count, valid_fonts, corrupted_fonts,
    stdout, logged, collected, trace, response, di, deleted_count, attempts,
    removed, reported>>

sweepVars ==
  <<lock, tmp, processed_count, valid_fonts, corrupted_fonts, stdout, task,
    verdict, font_info, trace>>

deleteVars == <<response, di, deleted_count, attempts, removed, reported>>

argVars == <<files, max_workers, args_delete, dry_run>>

Tasks == 1..Len(files)

NoVerdict == [valid |-> FALSE, reason |-> ""]

NoInfo == [name |-> <<>>, size |-> 0]

\* lines 23-31 and 249: the state after FontChecker(...) is constructed
InitWith(fs, w, d) ==
  /\ files = fs
  /\ max_workers = w
  /\ args_delete = d
  /\ dry_run = ~d
  /\ pc = "start"
  /\ task = [t \in 1..Len(fs) |-> "new"]
  /\ verdict = [t \in 1..Len(fs) |-> NoVerdict]
  /\ font_info = [t \in 1..Len(fs) |-> NoInfo]
  /\ lock = 0
  /\ tmp = [t \in 1..Len(fs) |-> 0]
  /\ processed_count = 0
  /\ total_count = 0
  /\ valid_fonts = <<>>
  /\ corrupted_fonts = <<>>
  /\ stdout = <<>>
  /\ logged = {}
  /\ collected = {}
  /\ trace = [t \in 1..Len(fs) |-> <<>>]
  /\ response = ""
  /\ di = 0
  /\ deleted_count = 0
  /\ attempts = <<>>
  /\ removed = {}
  /\ reported = -1

Init ==
  \E fs \in SeqsUpTo(SweepFiles, MaxFiles), w \in 1..MaxWorkers, d \in BOOLEAN :
    InitWith(fs, w, d)

InitValidate == \E f \in ValidateFiles : InitWith(<<f>>, 1, FALSE)

\* ------------------------------------------------------------ scan_fonts
\* lines 150-157
FindFiles ==
  /\ pc = "start"
  /\ IF files = <<>>
     THEN pc' = "display" /\ UNCHANGED total_count
     ELSE pc' = "submit" /\ total_count' = Len(files)
  /\ UNCHANGED <<argVars, sweepVars, logged, collected, deleteVars>>

\* lines 159-161
Submit ==
  /\ pc = "submit"
  /\ task' = [t \in Tasks |-> "queued"]
  /\ pc' = "collect"
  /\ UNCHANGED <<argVars, lock, tmp, processed_count, total_count, valid_fonts,
                 corrupted_fonts, stdout, verdict, font_info, trace, logged,
                 collected, deleteVars>>

Running == {t \in Tasks : task[t] \in {"check", "info", "wait", "incr", "append", "print"}}

Queued == {t \in Tasks : task[t] = "queued"}

\* ThreadPoolExecutor: a free worker takes the oldest queued work item and
\* calls process_single_font, which calls check_font_integrity (line 130)
StartTask_Locked(t) ==
  /\ t \in Queued
  /\ \A u \in Queued : t <= u
  /\ Cardinality(Running) < max_workers
  /\ lock = 0
  /\ lock' = t
  /\ task' = [task EXCEPT ![t] = "check"]
  /\ UNCHANGED <<argVars, pc, tmp, processed_count, total_count, valid_fonts,
                 corrupted_fonts, stdout, verdict, font_info, trace, logged,
                 collected, deleteVars>>

StartTask(t) ==
  /\ t \in Queued
  /\ \A u \in Queued : t <= u
  /\ Cardinality(Running) < max_workers
  /\ task' = [task EXCEPT ![t] = "check"]
  /\ UNCHANGED <<argVars, pc, lock, tmp, processed_count, total_count, valid_fonts,
                 corrupted_fonts, stdout, verdict, font_info, trace, logged,
                 collected, deleteVars>>

\* line 130: check_font_integrity returns; line 131 calls get_font_info
CheckReturn(t) ==
  /\ t \in Tasks
  /\ task[t] = "check"
  /\ LET r == check_font_integrity(files[t])
     IN  /\ ~r.hang
         /\ verdict' = [verdict EXCEPT ![t] = [valid |-> r.valid, reason |-> r.reason]]
         /\ trace' = [trace EXCEPT ![t] = r.calls]
  /\ task' = [task EXCEPT ![t] = "info"]
  /\ UNCHANGED <<argVars, pc, lock, tmp, processed_count, total_count, valid_fonts,
                 corrupted_fonts, stdout, font_info, logged, collected, deleteVars>>

\* line 131: get_font_info returns or raises
InfoReturn(t) ==
  /\ t \in Tasks
  /\ task[t] = "info"
  /\ LET i == get_font_info(files[t])
     IN  /\ ~i.hang
         /\ IF i.fault
            THEN task' = [task EXCEPT ![t] = "faulted"] /\ UNCHANGED font_info
            ELSE /\ task' = [task EXCEPT ![t] = "wait"]
                 /\ font_info' = [font_info EXCEPT ![t] = [name |-> i.name, size |-> i.size]]
  /\ UNCHANGED <<argVars, pc, lock, tmp, processed_count, total_count, valid_fonts,
                 corrupted_fonts, stdout, verdict, trace, logged, collected, deleteVars>>

\* Lock.acquire of line 133
LockFree == lock = 0

\* lines 133-134: enter the with block and load self.processed_count
AcquireLoad(t) ==
  /\ t \in Tasks
  /\ task[t] = "wait"
  /\ LockFree
  /\ lock' = t
  /\ tmp' = [tmp EXCEPT ![t] = processed_count]
  /\ task' = [task EXCEPT ![t] = "incr"]
  /\ UNCHANGED <<argVars, pc, processed_count, total_count, valid_fonts,
                 corrupted_fonts, stdout, verdict, font_info, trace, logged,
                 collected, deleteVars>>

\* lines 134-135: store the incremented counter and compute the percentage;
\* a zero total_count raises ZeroDivisionError, which leaves the with block
Store(t) ==
  /\ t \in Tasks
  /\ task[t] = "incr"
  /\ processed_count' = tmp[t] + 1
  /\ tmp' = [tmp EXCEPT ![t] = 0]
  /\ IF total_count = 0
     THEN task' = [task EXCEPT ![t] = "faulted"] /\ lock' = 0
     ELSE task' = [task EXCEPT ![t] = "append"] /\ UNCHANGED lock
  /\ UNCHANGED <<argVars, pc, total_count, valid_fonts, corrupted_fonts, stdout,
                 verdict, font_info, trace, logged, collected, deleteVars>>

Checked == {t \in Tasks : task[t] \notin {"new", "queued", "check"}}

\* is_valid and error_msg read from attributes shared by all tasks: the
\* values of the check that returned last
Local_Shared(t) == verdict[CHOOSE u \in Checked : \A v \in Checked : v <= u]

\* line 130: is_valid and error_msg are locals of the task's own call
Local(t) == verdict[t]

ValidRecord(t) == [path |-> t, info |-> font_info[t], error_msg |-> ReasonOk]

CorruptedRecord(t) == [path |-> t, info |-> font_info[t], error_msg |-> Local(t).reason]

\* lines 137-142
AppendRecord(t) ==
  /\ t \in Tasks
  /\ task[t] = "append"
  /\ IF Local(t).valid
     THEN /\ valid_fonts' = Append(valid_fonts, ValidRecord(t))
          /\ UNCHANGED corrupted_fonts
     ELSE /\ corrupted_fonts' = Append(corrupted_fonts, CorruptedRecord(t))
          /\ UNCHANGED valid_fonts
  /\ task' = [task EXCEPT ![t] = "print"]
  /\ UNCHANGED <<argVars, pc, lock, tmp, processed_count, total_count, stdout,
                 verdict, font_info, trace, logged, collected, deleteVars>>

\* the lock after the with block of line 133 is left by a raise
LockAfterFault(t) == 0

\* lines 144-146: print the progress line and leave the with block; print
\* raises UnicodeEncodeError on a name the stream cannot encode
PrintRelease(t) ==
  /\ t \in Tasks
  /\ task[t] = "print"
  /\ IF files[t].printable
     THEN /\ stdout' = Append(stdout, processed_count)
          /\ task' = [task EXCEPT ![t] = "done"]
          /\ lock' = 0
     ELSE /\ task' = [task EXCEPT ![t] = "faulted"]
          /\ lock' = LockAfterFault(t)
          /\ UNCHANGED stdout
  /\ UNCHANGED <<argVars, pc, tmp, processed_count, total_count, valid_fonts,
                 corrupted_fonts, verdict, font_info, trace, logged, collected,
                 deleteVars>>

Finished == {t \in Tasks : task[t] \in {"done", "faulted"}}

\* what the try of lines 165-168 does with a future whose task raised
OnFault_Propagate(t) == pc' = "scan_raised" /\ UNCHANGED logged

OnFault(t) == pc' = "collect" /\ logged' = logged \cup {t}

\* lines 164-168: as_completed yields a finished future
Collect(t) ==
  /\ pc = "collect"
  /\ t \in Finished \ collected
  /\ collected' = collected \cup {t}
  /\ IF task[t] = "faulted"
     THEN OnFault(t)
     ELSE UNCHANGED <<pc, logged>>
  /\ UNCHANGED <<argVars, sweepVars, total_count, deleteVars>>

\* lines 169-170: every future was yielded; the with block ends, the
\* completion line is printed and scan_fonts returns
ScanDone ==
  /\ pc = "collect"
  /\ collected = Tasks
  /\ pc' = "display"
  /\ UNCHANGED <<argVars, sweepVars, total_count, logged, collected, deleteVars>>

\* ------------------------------------------------- display_results, main
\* lines 172-194: the listing prints font_path.name of every corrupted
\* record; a name the stream cannot encode raises out of main
Display ==
  /\ pc = "display"
  /\ IF \E i \in 1..Len(corrupted_fonts) : ~files[corrupted_fonts[i].path].printable
     THEN pc' = "display_raised"
     ELSE pc' = "decide"
  /\ UNCHANGED <<argVars, sweepVars, total_count, logged, collected, deleteVars>>

\* lines 259-264
Decide ==
  /\ pc = "decide"
  /\ IF corrupted_fonts = <<>> \/ ~args_delete
     THEN pc' = "exit"
     ELSE pc' = "prompt"
  /\ UNCHANGED <<argVars, sweepVars, total_count, logged, collected, deleteVars>>

Responses == {"y", "Y", "n", ""}

\* str.lower()
lower(s) ==
  CASE s = "Y" -> "y"
    [] s = "N" -> "n"
    [] OTHER -> s

\* line 266
Confirmed_Always(answer) == TRUE

Confirmed(answer) == lower(answer) = "y"

\* lines 265-269
Prompt ==
  /\ pc = "prompt"
  /\ \E answer \in Responses :
       /\ response' = answer
       /\ IF Confirmed(answer) THEN pc' = "delete_entry" ELSE pc' = "exit"
  /\ UNCHANGED <<argVars, sweepVars, total_count, logged, collected, di,
                 deleted_count, attempts, removed, reported>>

\* ----------------------------------------------- delete_corrupted_fonts
\* lines 198-209
DeleteEntry ==
  /\ pc = "delete_entry"
  /\ IF corrupted_fonts = <<>> \/ dry_run
     THEN pc' = "exit" /\ UNCHANGED <<di, deleted_count>>
     ELSE pc' = "delete" /\ di' = 1 /\ deleted_count' = 0
  /\ UNCHANGED <<argVars, sweepVars, total_count, logged, collected, response,
                 attempts, removed, reported>>

\* where the loop of line 210 goes after os.remove raised OSError
AfterRemoveError_Abort(i) == Len(corrupted_fonts) + 1

AfterRemoveError(i) == i + 1

\* lines 210-216: one iteration; os.remove succeeds or raises OSError
DeleteOne ==
  /\ pc = "delete"
  /\ di <= Len(corrupted_fonts)
  /\ attempts' = Append(attempts, corrupted_fonts[di].path)
  /\ \E ok \in BOOLEAN :
       IF ok
       THEN /\ removed' = removed \cup {corrupted_fonts[di].path}
            /\ deleted_count' = deleted_count + 1
            /\ di' = di + 1
       ELSE /\ di' = AfterRemoveError(di)
            /\ UNCHANGED <<removed, deleted_count>>
  /\ UNCHANGED <<argVars, sweepVars, total_count, logged, collected, pc,
                 response, reported>>

\* line 218
DeleteDone ==
  /\ pc = "delete"
  /\ di > Len(corrupted_fonts)
  /\ reported' = deleted_count
  /\ pc' = "exit"
  /\ UNCHANGED <<argVars, sweepVars, total_count, logged, collected, response,
                 di, deleted_count, attempts, removed>>

\* ------------------------------------------------------- specifications
\* the steps of the pool thread that runs task t
Worker(t) ==
  \/ StartTask(t)
  \/ CheckReturn(t)
  \/ InfoReturn(t)
  \/ AcquireLoad(t)
  \/ Store(t)
  \/ AppendRecord(t)
  \/ PrintRelease(t)

\* the steps of the main thread
Main ==
  \/ FindFiles
  \/ Submit
  \/ \E t \in Tasks : Collect(t)
  \/ ScanDone
  \/ Display
  \/ Decide
  \/ Prompt
  \/ DeleteEntry
  \/ DeleteOne
  \/ DeleteDone

Next ==
  \/ FindFiles
  \/ Submit
  \/ \E t \in Tasks : StartTask(t)
  \/ \E t \in Tasks : CheckReturn(t)
  \/ \E t \in Tasks : InfoReturn(t)
  \/ \E t \in Tasks : AcquireLoad(t)
  \/ \E t \in Tasks : Store(t)
  \/ \E t \in Tasks : AppendRecord(t)
  \/ \E t \in Tasks : PrintRelease(t)
  \/ \E t \in Tasks : Collect(t)
  \/ ScanDone
  \/ Display
  \/ Decide
  \/ Prompt
  \/ DeleteEntry
  \/ DeleteOne
  \/ DeleteDone

Spec == Init /\ [][Next]_vars

\* every thread that can take a step eventually takes one
FairSpec ==
  /\ Init
  /\ [][Next]_vars
  /\ WF_vars(Main)
  /\ \A t \in 1..MaxFiles : WF_vars(Worker(t))

\* one candidate, drawn from every combination of collaborator answers,
\* taken through one sweep
NextValidate ==
  \/ FindFiles
  \/ Submit
  \/ \E t \in Tasks : StartTask(t)
  \/ \E t \in Tasks : CheckReturn(t)
  \/ \E t \in Tasks : InfoReturn(t)
  \/ \E t \in Tasks : AcquireLoad(t)
  \/ \E t \in Tasks : Store(t)
  \/ \E t \in Tasks : AppendRecord(t)
  \/ \E t \in Tasks : PrintRelease(t)
  \/ \E t \in Tasks : Collect(t)
  \/ ScanDone

SpecValidate == InitValidate /\ [][NextValidate]_vars

\* ================================================================ claims
\* scan_fonts has returned to main
ScanReturned ==
  pc \in {"display", "display_raised", "decide", "prompt", "delete_entry", "delete", "exit"}

ValidPaths == {valid_fonts[i].path : i \in 1..Len(valid_fonts)}

CorruptedPaths == {corrupted_fonts[i].path : i \in 1..Len(corrupted_fonts)}

\* the number of records held for a path, over both lists
Records(t) ==
  Cardinality({i \in 1..Len(valid_fonts) : valid_fonts[i].path = t})
    + Cardinality({i \in 1..Len(corrupted_fonts) : corrupted_fonts[i].path = t})

\* C1: once the sweep has returned, every submitted candidate has exactly one
\* record over valid_fonts and corrupted_fonts together.
C1_ExactlyOneRecord == ScanReturned => \A t \in Tasks : Records(t) = 1

\* C2: once the sweep has returned, processed_count equals total_count.
C2_ProcessedEqualsTotal == ScanReturned => processed_count = total_count

\* C3 as stated: a path is removed only when the run is not a dry run, the
\* prompt was answered exactly "y", and the path is in corrupted_fonts and
\* not in valid_fonts.
C3_RemovedOnlyIfLowercaseY ==
  \A p \in removed :
    /\ ~dry_run
    /\ args_delete
    /\ response = "y"
    /\ p \in CorruptedPaths
    /\ p \notin ValidPaths

\* C3 as amended: a path is removed only when the run is not a dry run, the
\* prompt was answered "y" or "Y", and the path is in corrupted_fonts and not
\* in valid_fonts; a dry run removes nothing.
C3_RemovedOnlyIfConfirmed ==
  /\ \A p \in removed :
       /\ ~dry_run
       /\ args_delete
       /\ response \in {"y", "Y"}
       /\ p \in CorruptedPaths
       /\ p \notin ValidPaths
  /\ dry_run => removed = {}

\* a live run that removed a corrupted file and kept a valid one
C3_Witness ==
  /\ removed # {}
  /\ ValidPaths # {}
  /\ pc = "exit"

\* C4: the deletion loop calls os.remove on the corrupted records one by one in
\* list order, each once, whatever the earlier removals did, and the count of
\* the final line is the number of removals that succeeded.
C4_EveryRecordAttemptedOnce ==
  /\ pc = "delete" =>
       /\ di \in 1..(Len(corrupted_fonts) + 1)
       /\ attempts = [i \in 1..(di - 1) |-> corrupted_fonts[i].path]
       /\ deleted_count = Cardinality(removed)
  /\ reported # -1 =>
       /\ attempts = [i \in 1..Len(corrupted_fonts) |-> corrupted_fonts[i].path]
       /\ reported = Cardinality(removed)

\* the first removal failed, the second succeeded, and the count 1 was reported
C4_Witness ==
  /\ reported = 1
  /\ Len(attempts) = 2
  /\ attempts[1] \notin removed
  /\ attempts[2] \in removed

\* C5: a task that raised does not hold the lock; scan_fonts never lets the
\* fault out; and when it returns every task has finished, every fault was
\* logged and every task that did not raise has recorded its verdict once.
C5_FaultContained ==
  /\ \A t \in Tasks : task[t] = "faulted" => lock # t
  /\ pc # "scan_raised"
  /\ ScanReturned =>
       \A t \in Tasks :
         /\ task[t] \in {"done", "faulted"}
         /\ task[t] = "faulted" <=> t \in logged
         /\ task[t] = "done" => Records(t) = 1 /\ verdict[t].valid = (t \in ValidPaths)

\* the sweep returned after one task raised inside the with block and another
\* completed
C5_Witness ==
  /\ ScanReturned
  /\ \E t, u \in Tasks :
       /\ task[t] = "faulted"
       /\ ~files[t].printable
       /\ Records(t) = 1
       /\ task[u] = "done"

\* ---------------------------------------------------------------- C6
\* the collaborator operations of the five checks, in the claimed order
CheckOrder ==
  <<"stat", "open", "has:head", "has:name", "has:cmap", "read:head", "read:name">>

IsCheckOp(op) == op \notin {"toUnicode", "close"}

\* the family-name records that settle the display-name check: the first one
\* that cannot be decoded or that holds an alphanumeric character
Deciding(f) ==
  {i \in 1..Len(f.names) :
     /\ f.names[i].nameID = 1
     /\ \/ f.names[i].decode = "raise"
        \/ \E j \in 1..Len(f.names[i].text) : isalnum(f.names[i].text[j])}

FirstDeciding(f) == CHOOSE i \in Deciding(f) : \A j \in Deciding(f) : i <= j

NameReadFails(f) ==
  \/ f.namesRead = "raise"
  \/ Deciding(f) # {} /\ f.names[FirstDeciding(f)].decode = "raise"

\* whether check k of CheckOrder passes on file f
Passes(f, k) ==
  CASE k = 1 -> f.size >= 1024
    [] k = 2 -> f.load = "ok"
    [] k = 3 -> f.has["head"] = "yes"
    [] k = 4 -> f.has["name"] = "yes"
    [] k = 5 -> f.has["cmap"] = "yes"
    [] k = 6 -> f.headRead = "ok" /\ f.magicNumber = 1594834165
    [] k = 7 -> ~NameReadFails(f) /\ Deciding(f) # {}

\* the reason the design gives for a failure of check k
ReasonOf(f, k) ==
  CASE k = 1 -> "file too small"
    [] k = 2 -> "load failed"
    [] k = 3 -> "missing required table: head"
    [] k = 4 -> "missing required table: name"
    [] k = 5 -> "missing required table: cmap"
    [] k = 6 -> IF f.headRead = "raise" THEN "head table read failed"
                ELSE "invalid magic number"
    [] k = 7 -> IF NameReadFails(f) THEN "name table read failed"
                ELSE "no valid font name"

Failing(f) == {k \in 1..Len(CheckOrder) : ~Passes(f, k)}

FirstFailing(f) == CHOOSE k \in Failing(f) : \A j \in Failing(f) : k <= j

\* stat, the table-presence test and close answer without raising
Regular(f) ==
  /\ f.stat = "ok"
  /\ \A tb \in Tables : f.has[tb] # "raise"
  /\ f.close = "ok"

Recorded(f) == ~get_font_info(f).fault

ExpectedValid == {t \in Tasks : Recorded(files[t]) /\ check_font_integrity(files[t]).valid}

ExpectedCorrupted ==
  {<<t, check_font_integrity(files[t]).reason>> :
     t \in {u \in Tasks : Recorded(files[u]) /\ ~check_font_integrity(files[u]).valid}}

\* C7: when a sweep has returned, the set of valid paths and the set of
\* (corrupted path, reason) pairs are those fixed by the candidates alone, the
\* same for every worker count and every interleaving.
C7_ResultFixedByCandidates ==
  ScanReturned =>
    /\ ValidPaths = ExpectedValid
    /\ {<<corrupted_fonts[i].path, corrupted_fonts[i].error_msg>> :
          i \in 1..Len(corrupted_fonts)} = ExpectedCorrupted

\* a sweep with two workers that has returned with the second candidate
\* recorded before the first
C7_Witness ==
  /\ ScanReturned
  /\ max_workers >= 2
  /\ Len(valid_fonts) = 2
  /\ valid_fonts[1].path > valid_fonts[2].path

\* ---------------------------------------------------------------- C8
\* the check opened a font
Opened(t) ==
  /\ files[t].load = "ok"
  /\ \E i \in 1..Len(trace[t]) : trace[t][i] = "open"

\* C8: after a check has returned, a font it opened has had close() called
\* on it.
C8_OpenedFontClosed ==
  \A t \in Checked : Opened(t) => \E i \in 1..Len(trace[t]) : trace[t][i] = "close"

\* ---------------------------------------------------------------- C9
\* the tasks whose validation never returns
Hanging == {t \in Tasks : files[t].load = "hang"}

\* no task holds the lock inside check_font_integrity or get_font_info; the
\* holder is between the counter increment and the progress print
LockOnlyInCriticalSection ==
  /\ \A t \in Tasks : task[t] \in {"check", "info"} => lock # t
  /\ lock # 0 => lock \in Tasks /\ task[lock] \in {"incr", "append", "print"}

\* C9: the lock is never held across a validation call; if no validation
\* hangs, the sweep returns; if fewer validations hang than there are workers,
\* every other task still finishes.
C9_NoLockAcrossValidation ==
  /\ []LockOnlyInCriticalSection
  /\ (Hanging = {}) => <>ScanReturned
  /\ (Cardinality(Hanging) < max_workers) =>
       <>(\A t \in Tasks \ Hanging : task[t] \in {"done", "faulted"})

\* one validation is stuck in get_font_info while a later task has finished
\* and another task is inside the critical section
C9_Witness ==
  \E t, u \in Tasks :
    /\ t \in Hanging
    /\ task[t] = "info"
    /\ u > t
    /\ task[u] = "done"
    /\ lock = 0

\* --------------------------------------------------------------- C10
RecordCount == Len(valid_fonts) + Len(corrupted_fonts)

\* C10: with the lock free, processed_count is the number of records; it is
\* one more only while the holder is between its increment and its append;
\* it never exceeds total_count, which is the non-zero number of candidates
\* from before the first submit; and the progress lines printed carry the
\* values 1, 2, ... with none repeated or skipped.
C10_CounterAndProgressInStep ==
  /\ lock = 0 => processed_count = RecordCount
  /\ processed_count \in {RecordCount, RecordCount + 1}
  /\ processed_count = RecordCount + 1 => lock # 0 /\ task[lock] = "append"
  /\ processed_count <= total_count
  /\ (\E t \in Tasks : task[t] # "new") => total_count = Len(files) /\ total_count > 0
  /\ stdout = [i \in 1..Len(stdout) |-> i]
  /\ lock = 0 => Len(stdout) = processed_count

====
